---- MODULE Spec2Model ----
(***************************************************************************)
(* Model of maxwell_monster_detector.py: the sliding-window scan of main() *)
(* (load, length check, first pass over the window generator, global       *)
(* mean / population standard deviation, CSV output) and the pure helpers  *)
(* it calls (bytes_to_bits, bits_to_bytes, binary_shannon_entropy,         *)
(* mutual_information_lag, compress_ratio_bytes, windows).                 *)
(*                                                                         *)
(* Numbers.  Python floats are modelled in fixed point:                    *)
(*   - entropy, p1 and mutual information in units of 1/ONE;               *)
(*   - mu and sd in units of 1/(ONE*STAT_K);                               *)
(*   - z-scores, args.z, compression ratios and args.cratio in units of    *)
(*     1/SCALE.                                                            *)
(* Integer counts (ones, c00..c11, lengths) are exact.  log2 is computed   *)
(* by the shift-and-square algorithm to FRAC fractional bits.              *)
(***************************************************************************)
EXTENDS Integers, Sequences, FiniteSets, TLC

VARIABLES
    args,       \* the parsed command line (parse_args)
    pc,         \* position in main()
    gen_n,      \* the window generator's local n = len(bits)
    gen_start,  \* the window generator's range iterator: next start
    rows,       \* main: rows (first-pass tuples)
    entropies,  \* main: entropies
    mu,         \* main: mu
    sd,         \* main: sd
    out_open,   \* whether the output destination has been opened
    out,        \* the lines written to the CSV writer, in order
    row_idx,    \* position of the second-pass loop in rows
    err,        \* the error the run ended with, <<>> if none
    zmemo,      \* zlib.compress output lengths seen so far, by payload
    fin,        \* helper call: the arguments
    flist,      \* helper call: the list object passed as argument
    fres,       \* helper call: the result
    fres2,      \* helper call: the result of the call chained on fres
    fpc         \* helper call: position

vars == <<args, pc, gen_n, gen_start, rows, entropies, mu, sd, out_open, out,
          row_idx, err, zmemo, fin, flist, fres, fres2, fpc>>

mainVars == <<args, pc, gen_n, gen_start, rows, entropies, mu, sd, out_open,
              out, row_idx, err, zmemo>>

fnVars == <<fin, flist, fres, fres2, fpc>>

---------------------------------------------------------------------------
\* Bounds of the model.
MaxBits == 4
MaxWin == 3
MaxStep == 2
MaxLag == 2
MaxFileBytes == 1
MaxFnBits == 6
MaxPackBits == 9
MaxFnBytes == 2
MaxFnWin == 4
MaxFnStep == 3
MaxFnLag == 3

\* Fixed-point scales.
FRAC == 2 * 4
ONE == 2 ^ FRAC
LOG_P == 2 ^ 12
STAT_K == 2 ^ 4
SCALE == 10 ^ 3

\* Program constants.
SD_FLOOR == 1
DEFAULT_WINDOW == 8192
DEFAULT_Z == 3000
DEFAULT_CRATIO == 980

Min(a, b) == IF a < b THEN a ELSE b

Max(a, b) == IF a > b THEN a ELSE b

Abs(x) == IF x < 0 THEN -x ELSE x

\* Division truncating toward zero.
TruncDiv(a, b) == IF a >= 0 THEN a \div b ELSE -((-a) \div b)

---------------------------------------------------------------------------
\* bytes_to_bits: for each byte, for i = 7 down to 0, append (b >> i) & 1.
\* The bit appended for byte number q (0-based) at shift i lands at 0-based
\* position 8*q + (7 - i).
bytes_to_bits_lsb(data) ==
    [idx \in 1..(8 * Len(data)) |->
        LET q == (idx - 1) \div 8
            i == (idx - 1) % 8
        IN  (data[q + 1] \div (2 ^ i)) % 2]

bytes_to_bits(data) ==
    [idx \in 1..(8 * Len(data)) |->
        LET q == (idx - 1) \div 8
            i == 7 - ((idx - 1) % 8)
        IN  (data[q + 1] \div (2 ^ i)) % 2]

\* The inner loop of bits_to_bytes: v = (v << 1) | (bits2[i + j] & 1), j = 0..7.
RECURSIVE PackFrom(_, _, _, _)
PackFrom(bits2, i, j, v) ==
    IF j = 8 THEN v
    ELSE PackFrom(bits2, i, j + 1, 2 * v + (bits2[i + j + 1] % 2))

PadLen(n) == (-n) % 8

bits_to_bytes(b) ==
    IF b = <<>> THEN <<>>
    ELSE LET pad == PadLen(Len(b))
             bits2 == b \o [k \in 1..pad |-> 0]
         IN  [q \in 1..(Len(bits2) \div 8) |-> PackFrom(bits2, 8 * (q - 1), 0, 0)]

\* The caller's list after bits_to_bytes returns: bits2 = bits + [0] * pad
\* builds a new list, so the argument is as it was.
bits_after_pack(b) == b

---------------------------------------------------------------------------
\* Integer square root (floor), by bisection.
RECURSIVE ISqrtBis(_, _, _)
ISqrtBis(n, lo, hi) ==
    IF lo >= hi THEN lo
    ELSE LET mid == (lo + hi + 1) \div 2
         IN  IF mid * mid <= n THEN ISqrtBis(n, mid, hi)
             ELSE ISqrtBis(n, lo, mid - 1)

ISqrt(n) == ISqrtBis(n, 0, Min(n, 46340))

\* log2(num/den) in units of 1/ONE, rounded down; num, den > 0.
RECURSIVE Log2Norm(_, _, _)
Log2Norm(num, den, e) ==
    IF num >= 2 * den THEN Log2Norm(num, 2 * den, e + 1)
    ELSE IF num < den THEN Log2Norm(2 * num, den, e - 1)
    ELSE <<num, den, e>>

RECURSIVE Log2Frac(_, _, _)
Log2Frac(x, k, acc) ==
    IF k = 0 THEN acc
    ELSE LET x2 == (x * x) \div LOG_P
         IN  IF x2 >= 2 * LOG_P THEN Log2Frac(x2 \div 2, k - 1, 2 * acc + 1)
             ELSE Log2Frac(x2, k - 1, 2 * acc)

Log2Fix(num, den) ==
    LET t == Log2Norm(num, den, 0)
        x == LOG_P + ((t[1] - t[2]) * LOG_P) \div t[2]
    IN  t[3] * ONE + Log2Frac(x, FRAC, 0)

\* The number of ones of a bit list: sum(bits) for bits in {0, 1}.
Ones(b) == Cardinality({i \in 1..Len(b) : b[i] = 1})

\* One term of the entropy: -p * log2(p) for p = c/n, omitted when p = 0.
EntropyTerm(c, n) == IF c > 0 THEN (c * (-Log2Fix(c, n))) \div n ELSE 0

\* binary_shannon_entropy: <<h, p1>>.
binary_shannon_entropy(b) ==
    LET n == Len(b)
        ones == Ones(b)
    IN  IF n = 0 THEN <<0, 0>>
        ELSE <<EntropyTerm(n - ones, n) + EntropyTerm(ones, n),
               (ones * ONE) \div n>>

---------------------------------------------------------------------------
\* The 2x2 joint table of mutual_information_lag over the pairs
\* (bits[i], bits[i + lag]), i in range(n - lag).
JointCounts(b, lag) ==
    LET I == 1..(Len(b) - lag)
        c00 == Cardinality({i \in I : b[i] = 0 /\ b[i + lag] = 0})
        c01 == Cardinality({i \in I : b[i] = 0 /\ b[i + lag] = 1})
        c10 == Cardinality({i \in I : b[i] = 1 /\ b[i + lag] = 0})
    IN  [c00 |-> c00, c01 |-> c01, c10 |-> c10,
         c11 |-> Cardinality(I) - c00 - c01 - c10]

\* m = n - lag, the divisor of every probability.
PairCount_n(n, lag) == n

PairCount(n, lag) == n - lag

\* term(pxy, px, py) with pxy = cxy/m, px = cx/m, py = cy/m.
term(cxy, cx, cy, m) ==
    IF cxy <= 0 \/ cx <= 0 \/ cy <= 0 THEN 0
    ELSE TruncDiv(cxy * Log2Fix(cxy * m, cx * cy), m)

mutual_information_lag(b, lag) ==
    LET n == Len(b) IN
    IF lag <= 0 \/ n <= lag THEN 0
    ELSE LET c == JointCounts(b, lag)
             m == PairCount(n, lag)
             a0 == c.c00 + c.c01
             a1 == c.c10 + c.c11
             b0 == c.c00 + c.c10
             b1 == c.c01 + c.c11
         IN  term(c.c00, a0, b0, m) + term(c.c01, a0, b1, m)
             + term(c.c10, a1, b0, m) + term(c.c11, a1, b1, m)

---------------------------------------------------------------------------
\* zlib.compress(payload, 9) is library code.  Its output is the 2-byte
\* header, the deflate stream and the 4-byte Adler-32.
\*   - A payload under 3 bytes has no back-reference (the shortest match is
\*     3 bytes), so deflate emits one fixed-Huffman block: 3 header bits, 8
\*     bits per literal below 144 and 9 per literal from 144 on, 7
\*     end-of-block bits.
\*   - A longer payload that repeats one byte is coded as at most 3 literals
\*     and matches at distance 1 of up to 258 bytes, at most 18 bits each;
\*     the length is anywhere from that of a one-literal stream to that bound.
\*   - Any other payload: anywhere from the length of a one-literal stream
\*     to that of a stored block (payload + 11).
LitBits(byte) == IF byte < 144 THEN 8 ELSE 9

RECURSIVE SumLitBits(_)
SumLitBits(payload) ==
    IF payload = <<>> THEN 0
    ELSE LitBits(Head(payload)) + SumLitBits(Tail(payload))

\* Bytes of a zlib stream whose deflate block has the given number of bits.
ZlibBytes(blockbits) == 2 + (blockbits + 7) \div 8 + 4

IsRun(payload) == \A i \in 1..Len(payload) : payload[i] = payload[1]

RunMaxBits(n) == 3 + 3 * 9 + 18 * (n \div 258 + 2) + 7

ZlibLens(payload) ==
    IF Len(payload) < 3
    THEN {ZlibBytes(3 + SumLitBits(payload) + 7)}
    ELSE IF IsRun(payload)
    THEN ZlibBytes(3 + 8 + 7)..ZlibBytes(RunMaxBits(Len(payload)))
    ELSE ZlibBytes(3 + 8 + 7)..(Len(payload) + 11)

\* zlib is deterministic: a payload compressed before has the same length.
ZlibOutcomes(memo, payload) ==
    IF payload \in DOMAIN memo THEN {memo[payload]} ELSE ZlibLens(payload)

\* compress_ratio_bytes, given the compressed length.
compress_ratio_bytes(payload, complen) ==
    IF payload = <<>> THEN SCALE ELSE (complen * SCALE) \div Len(payload)

---------------------------------------------------------------------------
\* windows(bits, win, step): the generator.
RangeStop_nowin(n, win) == Max(0, n)

RangeStop(n, win) == Max(0, n - win + 1)

\* Whether the generator yields again when its range iterator is at start;
\* n is its local n = len(bits).
GenHasNext(n, win, stp, start) ==
    win > 0 /\ stp > 0 /\ start < RangeStop(n, win)

\* The Python slice b[start:stop] of a list of length n, 0 <= start.
Slice(b, n, start, stop) ==
    LET k == Min(stop, n) - start
    IN  SubSeq([j \in 1..k |-> b[start + j]], 1, k)

GenYield(b, n, win, start) == <<start, Slice(b, n, start, start + win)>>

RECURSIVE WindowsFrom(_, _, _, _, _)
WindowsFrom(b, n, win, stp, start) ==
    IF GenHasNext(n, win, stp, start)
    THEN <<GenYield(b, n, win, start)>> \o WindowsFrom(b, n, win, stp, start + stp)
    ELSE <<>>

\* Everything the generator yields, in order.
windows(b, win, stp) == WindowsFrom(b, Len(b), win, stp, 0)

---------------------------------------------------------------------------
\* The files on disk.  A path names either a file whose bytes are the listed
\* ones, or ("run.bin") the file of ScenarioBits / 8 bytes that all equal the
\* one listed byte.
ScenarioBits == 2 ^ 17

ConstantFile(byte) ==
    SubSeq([i \in 1..(ScenarioBits \div 8) |-> byte], 1, ScenarioBits \div 8)

FileContent(path) ==
    IF path.name = "run.bin" THEN ConstantFile(path.bytes[1]) ELSE path.bytes

\* load_bits_from_args: a file's bytes expanded MSB-first, or the characters
\* of --bits that are 0 or 1.
IsBitChar(ch) == ch \in {"0", "1"}

load_bits_from_args(a) ==
    IF a.kind = "file" THEN bytes_to_bits(FileContent(a.file))
    ELSE LET s == SelectSeq(a.s, IsBitChar)
         IN  [i \in 1..Len(s) |-> IF s[i] = "1" THEN 1 ELSE 0]

\* main: bits.  It is assigned once, from the command line, and never
\* changed; it is kept out of the state and read as that value.
bits == load_bits_from_args(args)

\* The test of main's length check.
TooShort_strict(n, win) == n + 1 < win

TooShort(n, win) == n < win

RECURSIVE SumSeq(_)
SumSeq(s) == IF s = <<>> THEN 0 ELSE Head(s) + SumSeq(Tail(s))

RECURSIVE SumSq(_)
SumSq(s) == IF s = <<>> THEN 0 ELSE Head(s) * Head(s) + SumSq(Tail(s))

\* statistics.mean(entropies), in units of 1/(ONE*STAT_K); entropies # <<>>.
mean(es) == (SumSeq(es) * STAT_K) \div Len(es)

\* statistics.pstdev(entropies), in units of 1/(ONE*STAT_K): the square root
\* of the exact variance (n * sum(h^2) - sum(h)^2) / n^2.  It is 0 exactly
\* when all entropies are equal.
Variance_n2(es) == Len(es) * SumSq(es) - SumSeq(es) * SumSeq(es)

pstdev(es) == ISqrt(Variance_n2(es) * STAT_K * STAT_K) \div Len(es)

\* if sd == 0.0: sd = 1e-12
floor_sd_none(s) == s

floor_sd(s) == IF s = 0 THEN SD_FLOOR ELSE s

\* zscore = (h - mu) / sd, in units of 1/SCALE.
zscore_of(h, m, s) == TruncDiv((h * STAT_K - m) * SCALE, s)

\* flagged = (zscore <= -abs(args.z)) or (cr <= args.cratio)
flagged_noabs(zs, cr, z, cratio) == (zs <= -z) \/ (cr <= cratio)

flagged_of(zs, cr, z, cratio) == (zs <= -Abs(z)) \/ (cr <= cratio)

\* A cell of a CSV line: a column name of the header (k is the lag of an
\* mi_lag column, 0 otherwise), or a value rendered as an integer ("d") or
\* with a fixed number of decimals ("f6", "f3").
Col(name, k) == [name |-> name, k |-> k]

Cell(fmt, v) == [fmt |-> fmt, v |-> v]

header_of(maxlag) ==
    <<Col("start_bit", 0), Col("end_bit", 0), Col("entropy_bits_per_bit", 0),
      Col("p1", 0), Col("entropy_zscore", 0)>>
    \o [k \in 1..maxlag |-> Col("mi_lag", k)]
    \o <<Col("compression_ratio", 0), Col("flagged", 0)>>

row_of(r, zs, fl) ==
    <<Cell("d", r.start), Cell("d", r.end), Cell("f6", r.h), Cell("f6", r.p1),
      Cell("f3", zs)>>
    \o [k \in 1..Len(r.mi) |-> Cell("f6", r.mi[k])]
    \o <<Cell("f6", r.cr), Cell("d", IF fl THEN 1 ELSE 0)>>

---------------------------------------------------------------------------
\* The steps of main().

\* bits = load_bits_from_args(args)
LoadBits ==
    /\ pc = "start"
    /\ pc' = "check"
    /\ UNCHANGED <<args, gen_n, gen_start, rows, entropies, mu, sd, out_open, out,
                   row_idx, err, zmemo, fnVars>>

\* if len(bits) < args.window: raise SystemExit(...); else enter the first
\* pass with empty rows and entropies; the for loop starts the generator,
\* which takes n = len(bits).
CheckLength ==
    /\ pc = "check"
    /\ IF TooShort(Len(bits), args.window)
       THEN /\ pc' = "exit"
            /\ err' = <<"Need at least", args.window, "bits, got", Len(bits)>>
            /\ UNCHANGED <<rows, entropies, gen_n, gen_start>>
       ELSE /\ pc' = "pass1"
            /\ rows' = <<>>
            /\ entropies' = <<>>
            /\ gen_n' = Len(bits)
            /\ gen_start' = 0
            /\ err' = err
    /\ UNCHANGED <<args, mu, sd, out_open, out, row_idx, zmemo, fnVars>>

\* One iteration of the first-pass loop: the generator yields a window, its
\* metrics are computed and appended.
FirstPass ==
    /\ pc = "pass1"
    /\ GenHasNext(gen_n, args.window, args.step, gen_start)
    /\ LET w == GenYield(bits, gen_n, args.window, gen_start)
           start == w[1]
           wbits == w[2]
           hp == binary_shannon_entropy(wbits)
           mi == [k \in 1..args.maxlag |-> mutual_information_lag(wbits, k)]
           payload == bits_to_bytes(wbits)
       IN  \E complen \in ZlibOutcomes(zmemo, payload) :
             /\ zmemo' = IF payload \in DOMAIN zmemo THEN zmemo
                         ELSE zmemo @@ (payload :> complen)
             /\ entropies' = Append(entropies, hp[1])
             /\ rows' = Append(rows,
                    [start |-> start, end |-> start + args.window,
                     h |-> hp[1], p1 |-> hp[2], mi |-> mi,
                     cr |-> compress_ratio_bytes(payload, complen)])
    /\ gen_start' = gen_start + args.step
    /\ UNCHANGED <<args, pc, gen_n, mu, sd, out_open, out, row_idx, err, fnVars>>

\* Finalize as it would be if mu and sd were taken while the generator still
\* has windows to yield.
Finalize_early ==
    /\ pc = "pass1"
    /\ IF entropies = <<>>
       THEN /\ ~GenHasNext(gen_n, args.window, args.step, gen_start)
            /\ pc' = "crash"
            /\ err' = <<"StatisticsError">>
            /\ UNCHANGED <<mu, sd>>
       ELSE /\ mu' = mean(entropies)
            /\ sd' = floor_sd(pstdev(entropies))
            /\ pc' = "open"
            /\ err' = err
    /\ UNCHANGED <<args, gen_n, gen_start, rows, entropies, out_open, out,
                   row_idx, zmemo, fnVars>>

\* The generator is exhausted: mu and sd.  statistics.mean raises
\* StatisticsError on an empty list.
Finalize ==
    /\ pc = "pass1"
    /\ ~GenHasNext(gen_n, args.window, args.step, gen_start)
    /\ IF entropies = <<>>
       THEN /\ pc' = "crash"
            /\ err' = <<"StatisticsError">>
            /\ UNCHANGED <<mu, sd>>
       ELSE /\ mu' = mean(entropies)
            /\ sd' = floor_sd(pstdev(entropies))
            /\ pc' = "open"
            /\ err' = err
    /\ UNCHANGED <<args, gen_n, gen_start, rows, entropies, out_open, out,
                   row_idx, zmemo, fnVars>>

\* out_f = sys.stdout or open(args.csv, "w")
OpenOutput ==
    /\ pc = "open"
    /\ out_open' = TRUE
    /\ pc' = "header"
    /\ UNCHANGED <<args, gen_n, gen_start, rows, entropies, mu, sd, out,
                   row_idx, err, zmemo, fnVars>>

\* w.writerow(header)
WriteHeader ==
    /\ pc = "header"
    /\ out' = Append(out, header_of(args.maxlag))
    /\ row_idx' = 1
    /\ pc' = "rows"
    /\ UNCHANGED <<args, gen_n, gen_start, rows, entropies, mu, sd, out_open,
                   err, zmemo, fnVars>>

\* One iteration of the second-pass loop.
WriteRow ==
    /\ pc = "rows"
    /\ row_idx <= Len(rows)
    /\ LET r == rows[row_idx]
           zs == zscore_of(r.h, mu, sd)
           fl == flagged_of(zs, r.cr, args.z, args.cratio)
       IN  out' = Append(out, row_of(r, zs, fl))
    /\ row_idx' = row_idx + 1
    /\ UNCHANGED <<args, pc, gen_n, gen_start, rows, entropies, mu, sd,
                   out_open, err, zmemo, fnVars>>

\* The loop is over; the finally clause closes the file.
Close ==
    /\ pc = "rows"
    /\ row_idx > Len(rows)
    /\ out_open' = FALSE
    /\ pc' = "done"
    /\ UNCHANGED <<args, gen_n, gen_start, rows, entropies, mu, sd, out,
                   row_idx, err, zmemo, fnVars>>

Next ==
    \/ LoadBits
    \/ CheckLength
    \/ FirstPass
    \/ Finalize
    \/ OpenOutput
    \/ WriteHeader
    \/ WriteRow
    \/ Close

---------------------------------------------------------------------------
\* Inputs.
SeqsUpTo(S, n) == UNION {[1..k -> S] : k \in 0..n}

ByteVals == {0, 1, 128, 165, 255}

BitStrings ==
    SeqsUpTo({"0", "1"}, MaxBits)
    \cup {<<"0", " ", "1">>, <<" ">>, <<"1", "x", "1", "0", "\n">>}

Files == SeqsUpTo(ByteVals, MaxFileBytes)

ZVals == {-1000, DEFAULT_Z}

CratioVals == {DEFAULT_CRATIO, 9500}

NoFile == [name |-> "", bytes |-> <<>>]

Sources ==
    {[kind |-> "bits", s |-> s, file |-> NoFile] : s \in BitStrings}
    \cup {[kind |-> "file", s |-> <<>>, file |-> [name |-> "data.bin", bytes |-> d]] :
            d \in Files}

ArgsOf(src, window, step, maxlag, z, cratio) ==
    [kind |-> src.kind, s |-> src.s, file |-> src.file, window |-> window,
     step |-> step, maxlag |-> maxlag, z |-> z, cratio |-> cratio]

\* The state of main() after parse_args, for the given command lines.
InitMain(A) ==
    /\ args \in A
    /\ pc = "start"
    /\ gen_n = 0
    /\ gen_start = 0
    /\ rows = <<>>
    /\ entropies = <<>>
    /\ mu = 0
    /\ sd = 0
    /\ out_open = FALSE
    /\ out = <<>>
    /\ row_idx = 0
    /\ err = <<>>
    /\ zmemo = <<>>

FnIdle ==
    /\ fin = [kind |-> "none"]
    /\ flist = <<>>
    /\ fres = <<>>
    /\ fres2 = <<>>
    /\ fpc = "off"

Init ==
    /\ InitMain({ArgsOf(src, w, s, l, z, c) :
                    src \in Sources, w \in (-1)..MaxWin, s \in 0..MaxStep,
                    l \in (-1)..MaxLag, z \in ZVals, c \in CratioVals})
    /\ FnIdle

Spec == Init /\ [][Next]_vars

---------------------------------------------------------------------------
\* The degenerate scan: a file of 131072 bits, all of them zero, scanned
\* with window = step = 8192, maxlag = 2 and the default thresholds.
ScenarioArgs(byte) ==
    ArgsOf([kind |-> "file", s |-> <<>>,
            file |-> [name |-> "run.bin", bytes |-> <<byte>>]],
           DEFAULT_WINDOW, DEFAULT_WINDOW, 2, DEFAULT_Z, DEFAULT_CRATIO)

InitScenario ==
    /\ InitMain({ScenarioArgs(0)})
    /\ FnIdle

SpecScenario == InitScenario /\ [][Next]_vars

---------------------------------------------------------------------------
\* The helpers called on their own: one call, or a call chained on the
\* result of another (unpack then pack, pack then unpack).

\* windows(bits, win, step), run to exhaustion.
CallWindows ==
    /\ fpc = "call"
    /\ fin.kind = "windows"
    /\ fres' = windows(fin.bits, fin.win, fin.step)
    /\ fpc' = "done"
    /\ UNCHANGED <<fin, flist, fres2, mainVars>>

\* bytes_to_bits(data)
CallBytesToBits ==
    /\ fpc = "call"
    /\ fin.kind = "bytes"
    /\ fres' = bytes_to_bits(fin.data)
    /\ fpc' = "unpacked"
    /\ UNCHANGED <<fin, flist, fres2, mainVars>>

\* bits_to_bytes(bytes_to_bits(data))
RepackBits ==
    /\ fpc = "unpacked"
    /\ fres2' = bits_to_bytes(fres)
    /\ fpc' = "done"
    /\ UNCHANGED <<fin, flist, fres, mainVars>>

\* bits_to_bytes(bits), bits being the caller's list flist.
CallBitsToBytes ==
    /\ fpc = "call"
    /\ fin.kind = "bits"
    /\ fres' = bits_to_bytes(flist)
    /\ flist' = bits_after_pack(flist)
    /\ fpc' = "packed"
    /\ UNCHANGED <<fin, fres2, mainVars>>

\* bytes_to_bits(bits_to_bytes(bits))
UnpackBytes ==
    /\ fpc = "packed"
    /\ fres2' = bytes_to_bits(fres)
    /\ fpc' = "done"
    /\ UNCHANGED <<fin, flist, fres, mainVars>>

\* mutual_information_lag(bits, lag)
CallMI ==
    /\ fpc = "call"
    /\ fin.kind = "mi"
    /\ fres' = mutual_information_lag(fin.bits, fin.lag)
    /\ fpc' = "done"
    /\ UNCHANGED <<fin, flist, fres2, mainVars>>

NextFn ==
    \/ CallWindows
    \/ CallBytesToBits
    \/ RepackBits
    \/ CallBitsToBytes
    \/ UnpackBytes
    \/ CallMI

FnByteVals == {0, 1, 2, 127, 128, 165, 254, 255}

BitSeqs(n) == SeqsUpTo({0, 1}, n)

FnInputs ==
    {[kind |-> "windows", bits |-> b, win |-> w, step |-> s] :
        b \in BitSeqs(MaxFnBits), w \in 0..MaxFnWin, s \in 0..MaxFnStep}
    \cup {[kind |-> "bytes", data |-> d] : d \in SeqsUpTo(FnByteVals, MaxFnBytes)}
    \cup {[kind |-> "bits", bits |-> b] : b \in BitSeqs(MaxPackBits)}
    \cup {[kind |-> "mi", bits |-> b, lag |-> k] :
            b \in BitSeqs(MaxFnBits), k \in (-1)..MaxFnLag}

MainIdle ==
    /\ args = [kind |-> "none"]
    /\ pc = "off"
    /\ gen_n = 0
    /\ gen_start = 0
    /\ rows = <<>>
    /\ entropies = <<>>
    /\ mu = 0
    /\ sd = 0
    /\ out_open = FALSE
    /\ out = <<>>
    /\ row_idx = 0
    /\ err = <<>>
    /\ zmemo = <<>>

InitFn ==
    /\ fin \in FnInputs
    /\ flist = IF fin.kind = "bits" THEN fin.bits ELSE <<>>
    /\ fres = <<>>
    /\ fres2 = <<>>
    /\ fpc = "call"
    /\ MainIdle

SpecFn == InitFn /\ [][NextFn]_vars

---------------------------------------------------------------------------
\* Properties.

\* The data lines written so far (the header is line 1).
DataLines == 2..Len(out)

ZsOf(line) == line[5].v

CrOf(line) == line[Len(line) - 1].v

FlOf(line) == line[Len(line)].v

SecondPass == pc \in {"open", "header", "rows", "done"}

AllEqual(s) == \A i \in 1..Len(s) : s[i] = s[1]

Zeros(n) == [k \in 1..n |-> 0]

\* C1: for W > 0 and S > 0, windows(bits, W, S) yields exactly the windows
\* with start in {0, S, 2S, ...} and start + W <= N, in increasing order of
\* start, each the W bits bits[start .. start+W-1]; no qualifying start is
\* skipped and the count is floor((N-W)/S)+1 when N >= W, 0 when N < W.
WindowsContract ==
    (fin.kind = "windows" /\ fpc = "done" /\ fin.win > 0 /\ fin.step > 0) =>
        LET N == Len(fin.bits)
            W == fin.win
            S == fin.step
        IN  /\ Len(fres) = IF N >= W THEN (N - W) \div S + 1 ELSE 0
            /\ \A i \in 1..Len(fres) :
                 /\ fres[i][1] = (i - 1) * S
                 /\ fres[i][1] + W <= N
                 /\ Len(fres[i][2]) = W
                 /\ \A j \in 1..Len(fres[i][2]) :
                      fres[i][2][j] = fin.bits[fres[i][1] + j]
            /\ \A k \in 0..N :
                 (k * S + W <= N) => \E i \in 1..Len(fres) : fres[i][1] = k * S

\* C1 witness: several windows were yielded and a trailing partial window
\* was dropped.
WindowsWitness ==
    /\ fin.kind = "windows"
    /\ fpc = "done"
    /\ fin.win > 1
    /\ fin.step > 1
    /\ Len(fres) >= 2
    /\ fres[Len(fres)][1] + fin.win < Len(fin.bits)
    /\ fres[Len(fres)][1] + fin.step < Len(fin.bits)

\* C2: when the loaded bit stream is shorter than one window, the run ends
\* in the error naming the required count W and the actual count N, the
\* output is never opened and no header or row is written.
ShortInputRejected ==
    (pc # "off" /\ Len(bits) < args.window) =>
        /\ pc \in {"start", "check", "exit"}
        /\ out = <<>>
        /\ ~out_open
        /\ rows = <<>>
        /\ pc = "exit" =>
             err = <<"Need at least", args.window, "bits, got", Len(bits)>>

\* C2 witness: a non-empty input one bit short of the window was rejected.
ShortInputWitness ==
    /\ pc = "exit"
    /\ Len(bits) > 0
    /\ Len(bits) + 1 = args.window
    /\ err = <<"Need at least", args.window, "bits, got", Len(bits)>>
    /\ out = <<>>

\* C3: with a non-positive window, step or maxlag the run ends in an error
\* and produces no output: the output is never opened, nothing is written,
\* and the scan does not complete.
ConfigErrorsRejected ==
    (pc # "off" /\ (args.window <= 0 \/ args.step <= 0 \/ args.maxlag <= 0)) =>
        /\ out = <<>>
        /\ ~out_open
        /\ pc # "done"

TwoPassState ==
    /\ (out_open \/ out # <<>>) => SecondPass
    /\ SecondPass =>
         /\ Len(rows) = Len(windows(bits, args.window, args.step))
         /\ Len(entropies) = Len(rows)
         /\ \A i \in 1..Len(rows) : entropies[i] = rows[i].h
         /\ mu = mean(entropies)
         /\ sd = floor_sd(pstdev(entropies))
         /\ \A i \in DataLines :
              ZsOf(out[i]) = zscore_of(entropies[i - 1], mu, sd)

TwoPassStep ==
    SecondPass =>
        /\ mu' = mu
        /\ sd' = sd
        /\ rows' = rows
        /\ entropies' = entropies

TwoPassOrder == []TwoPassState /\ [][TwoPassStep]_vars

\* C5 witness: rows are being written for a scan of several windows whose
\* entropies differ.
TwoPassWitness ==
    /\ pc = "rows"
    /\ Len(out) >= 3
    /\ Len(rows) >= 3
    /\ ~AllEqual(entropies)

\* C6 as stated: in the all-zero scan the report has 16 rows, each with
\* entropy 0, both MI columns 0 and flagged = 1, the flag resting on the
\* z-score test zscore <= -|z_threshold| being satisfied.
ZeroScan ==
    /\ pc # "off"
    /\ args.kind = "file"
    /\ args.file = [name |-> "run.bin", bytes |-> <<0>>]
    /\ args.window = DEFAULT_WINDOW
    /\ args.step = DEFAULT_WINDOW
    /\ args.maxlag = 2
    /\ args.z = DEFAULT_Z
    /\ args.cratio = DEFAULT_CRATIO

DegenerateFlagByZScore ==
    ZeroScan =>
        /\ pc = "done" => Len(out) = 1 + 16
        /\ \A i \in DataLines :
             /\ out[i][3].v = 0
             /\ out[i][6].v = 0
             /\ out[i][7].v = 0
             /\ FlOf(out[i]) = 1
             /\ ZsOf(out[i]) <= -Abs(args.z)

\* C6 amended: in the all-zero scan mu is 0 and sd is the floor; the report
\* has 16 rows, each with entropy 0, both MI columns 0 and flagged = 1; every
\* z-score is 0, so the z-score test zscore <= -|z_threshold| is not
\* satisfied, and the flag rests on the compression test
\* compression_ratio <= cratio_threshold.
DegenerateFlagByCompression ==
    /\ (ZeroScan /\ SecondPass) => (mu = 0 /\ sd = SD_FLOOR)
    /\ ZeroScan =>
         \A i \in DataLines :
             /\ out[i][3].v = 0
             /\ out[i][6].v = 0
             /\ out[i][7].v = 0
             /\ FlOf(out[i]) = 1
             /\ ZsOf(out[i]) = 0
             /\ ~(ZsOf(out[i]) <= -Abs(args.z))
             /\ CrOf(out[i]) <= args.cratio
    /\ (ZeroScan /\ pc = "done") => Len(out) = 1 + 16

\* C6 witness: the all-zero scan is complete with every row flagged, by the
\* compression test.
DegenerateWitness ==
    /\ ZeroScan
    /\ pc = "done"
    /\ Len(out) = 1 + 16
    /\ \A i \in DataLines :
         FlOf(out[i]) = 1 /\ CrOf(out[i]) <= args.cratio /\ ZsOf(out[i]) = 0

\* C7: bytes_to_bits gives 8B bits, bit 8i+j being bit (7-j) of byte i, and
\* packing them gives the bytes back; bits_to_bytes of W > 0 bits gives
\* ceil(W/8) bytes whose bits are the input followed by (-W mod 8) zeros,
\* and leaves the input list as it was.
BitOfByte(byte, k) == (byte \div (2 ^ k)) % 2

BitsBytesRoundTrip ==
    /\ (fin.kind = "bytes" /\ fpc \in {"unpacked", "done"}) =>
         /\ Len(fres) = 8 * Len(fin.data)
         /\ \A i \in 0..(Len(fin.data) - 1) : \A j \in 0..7 :
              fres[8 * i + j + 1] = BitOfByte(fin.data[i + 1], 7 - j)
    /\ (fin.kind = "bytes" /\ fpc = "done") => fres2 = fin.data
    /\ (fin.kind = "bits" /\ fpc \in {"packed", "done"} /\ fin.bits # <<>>) =>
         /\ Len(fres) = (Len(fin.bits) + 7) \div 8
         /\ flist = fin.bits
    /\ (fin.kind = "bits" /\ fpc = "done" /\ fin.bits # <<>>) =>
         fres2 = fin.bits \o Zeros((8 - (Len(fin.bits) % 8)) % 8)

\* C7 witness: a bit list with ones whose length is over one byte and not a
\* multiple of 8 was packed and unpacked.
BitsBytesWitness ==
    /\ fin.kind = "bits"
    /\ fpc = "done"
    /\ Len(fin.bits) > 8
    /\ Len(fin.bits) % 8 # 0
    /\ fin.bits[Len(fin.bits)] = 1
    /\ Len(fres) = 2
    /\ Len(fres2) = 16

\* C8: a completed scan's report has one row per window, starts increasing
\* by exactly step, end_bit = start_bit + W, and 5 + maxlag + 2 columns in
\* the header and in every row, the MI columns being lags 1..maxlag in order.
ReportShape ==
    (pc = "done") =>
        /\ Len(out) = 1 + Len(windows(bits, args.window, args.step))
        /\ \A i \in 1..Len(out) : Len(out[i]) = 5 + args.maxlag + 2
        /\ \A k \in 1..args.maxlag : out[1][5 + k] = Col("mi_lag", k)
        /\ \A i \in DataLines :
             /\ out[i][2].v = out[i][1].v + args.window
             /\ i > 2 => out[i][1].v = out[i - 1][1].v + args.step

\* C9: from the start of the second pass sd is strictly positive: it is the
\* floor when the population standard deviation of the entropies is 0, which
\* is the case exactly when all entropies are equal, and the population
\* standard deviation itself otherwise.
SdPositive ==
    SecondPass =>
        /\ sd > 0
        /\ (pstdev(entropies) = 0) <=> AllEqual(entropies)
        /\ AllEqual(entropies) => sd = SD_FLOOR
        /\ ~AllEqual(entropies) => sd = pstdev(entropies)

\* C9 witness: z-scores were written for a scan of several windows of equal
\* entropy, with sd at the floor.
SdPositiveWitness ==
    /\ pc = "rows"
    /\ Len(entropies) >= 2
    /\ AllEqual(entropies)
    /\ entropies[1] > 0
    /\ sd = SD_FLOOR
    /\ Len(out) >= 3

\* C10: for a window of identical bits and any integer lag k,
\* mutual_information_lag is 0; when 0 < k < W the joint table over the W-k
\* pairs has all its weight in c00 or in c11.
IsConstant(b) == \A i \in 1..Len(b) : b[i] = b[1]

ConstantWindowMI ==
    (fin.kind = "mi" /\ fpc = "done" /\ IsConstant(fin.bits)) =>
        /\ fres = 0
        /\ (fin.lag > 0 /\ Len(fin.bits) > fin.lag) =>
             LET c == JointCounts(fin.bits, fin.lag)
                 m == Len(fin.bits) - fin.lag
             IN  /\ c.c00 + c.c01 + c.c10 + c.c11 = m
                 /\ c.c01 = 0
                 /\ c.c10 = 0
                 /\ (c.c00 = m /\ c.c11 = 0) \/ (c.c11 = m /\ c.c00 = 0)

\* C10 witness: the mutual information of an all-ones window was computed
\* from its joint table.
ConstantWindowMIWitness ==
    /\ fin.kind = "mi"
    /\ fpc = "done"
    /\ IsConstant(fin.bits)
    /\ fin.lag > 1
    /\ Len(fin.bits) > fin.lag + 1
    /\ fin.bits[1] = 1
    /\ fres = 0

====
